---- MODULE Spec2Model ----
(***************************************************************************)
(* Polar motion correction (gmeterpy/corrections/polar_motion.py).         *)
(*                                                                         *)
(* Two parts of the module are modelled:                                   *)
(*   - get_iers_polar_motion: opens the IERS table through astropy's       *)
(*     IERS_Auto.open(), interpolates the pole coordinates with pm_xy and  *)
(*     warns through Python's warnings module when a status is not         *)
(*     FROM_IERS_B (specification Spec);                                   *)
(*   - polar_motion_correction: the closed-form pole tide formula in       *)
(*     floating point (specification SpecCorr).                            *)
(*                                                                         *)
(* Units.  An epoch is a count of half days: epoch e is the Modified       *)
(* Julian Date e/2, so that mjd_utc splits it into the whole day e \div 2  *)
(* and the day fraction (e % 2)/2.  Table values are integers (multiples   *)
(* of 4) so that the linear interpolation at a half day is exact.          *)
(***************************************************************************)
EXTENDS Integers, Sequences, FiniteSets, TLC

\* Bounds of the model.
MaxLen == 2
MaxN == 2
MaxTicks == 1

\* iers.conf.auto_max_age = 10 (days)
auto_max_age == 10

\* A mis-set configuration: automatic download left switched on.
auto_download_enabled == TRUE

\* iers.conf.auto_download = None: None is falsy, so IERS_Auto.open() takes
\* its "not conf.auto_download" branch.
auto_download == FALSE

\* The text and place of the one warning the module issues.
wrnmsg == "Some pole coordinates are not final."

VARIABLES
  bundled,     \* rows of the IERS-B file packaged with the installation
  remote,      \* version of the file the IERS server publishes at IERS_A_URL
  now,         \* days since the process started
  iers_table,  \* the table object cached on the class (cls "None": none yet)
  registry,    \* __warningregistry__ of the module: warnings already shown
  jd,          \* argument of the last call of get_iers_polar_motion
  ret,         \* what the last call returned or raised
  status,      \* the status array pm_xy gave the last call
  shown,       \* how many times the last call's warning reached the user
  repeat,      \* the last call repeated the query of the call before it
  elapsed,     \* days passed between the call before the last and the last
  called_at,   \* day of the last call (-1: no call yet)
  args,        \* arguments of the last call of polar_motion_correction
  out          \* what that call returned

pmvars == <<bundled, remote, now, iers_table, registry, jd, ret, status,
            shown, repeat, elapsed, called_at>>
vars == <<bundled, remote, now, iers_table, registry, jd, ret, status,
          shown, repeat, elapsed, called_at, args, out>>

(***************************************************************************)
(* Tables.                                                                 *)
(***************************************************************************)

\* One row of an IERS file: day m of data set k.  pm_x and pm_y differ in
\* every row and from row to row.
Row(m, k) == [mjd |-> m, pm_x |-> 4 * m * m + 8 * k, pm_y |-> 100 - 8 * m - 4 * k]

\* A file of n daily rows, MJD 1 .. n.
FileRows(n, k) == [i \in 1..n |-> Row(i, k)]

\* The files an installation may carry, the empty one included.
BundledFiles == {FileRows(n, k) : n \in 0..MaxLen, k \in 0..1}

\* The file as a table object of class c.
TableOf(c, rows, day) == [cls |-> c, rows |-> rows, made |-> day]

\* What the server serves as version v: every value revised.
RemoteRows(v) == FileRows(MaxLen, v + 2)

NoTable == [cls |-> "None", rows |-> <<>>, made |-> 0]

\* Query epochs, in half days: MJD 0 (before every table), day 1, day 1 1/2,
\* and half a day after the last day a table may hold.
Epochs == {0, 2, 3, 2 * MaxLen + 1}

Scalar(e) == [shape |-> "scalar", v |-> <<e>>]

ArraysOf(S) == UNION {[1..n -> S] : n \in 1..MaxN}

\* jd: a scalar or an array of 1 .. MaxN epochs.
Queries == {Scalar(e) : e \in Epochs}
           \cup {[shape |-> "array", v |-> s] : s \in ArraysOf(Epochs)}

(***************************************************************************)
(* astropy.utils.iers as get_iers_polar_motion uses it.                    *)
(***************************************************************************)

\* IERS_B.open(): the packaged file, read once and cached on the class.
IERS_B_open ==
  IF iers_table.cls = "IERS_B" THEN iers_table
  ELSE TableOf("IERS_B", bundled, 0)

\* iers.IERS_Auto.open()
IERS_Auto_open ==
  IF ~auto_download THEN IERS_B_open
  ELSE IF iers_table.cls = "IERS_Auto" THEN iers_table
  ELSE TableOf("IERS_Auto", RemoteRows(remote), now)

\* A refresh that does not look at the class of the table.
refresh_any_table(t) ==
  IF now - t.made > auto_max_age
  THEN [t EXCEPT !.rows = RemoteRows(remote), !.made = now]
  ELSE t

\* _refresh_table_as_needed, the first thing pm_xy does: an IERS_Auto table
\* older than auto_max_age is overwritten in place with the server's rows;
\* an IERS_B table is left alone.
refresh_table_as_needed(t) ==
  IF t.cls = "IERS_Auto" /\ now - t.made > auto_max_age
  THEN [t EXCEPT !.rows = RemoteRows(remote), !.made = now]
  ELSE t

\* np.searchsorted(self['MJD'], mjd, side='right'): rows at or before mjd.
searchsorted(rows, mjd) == Cardinality({i \in 1..Len(rows) : rows[i].mjd <= mjd})

\* np.clip(i, lo, hi) = minimum(maximum(i, lo), hi)
clip(i, lo, hi) ==
  LET m == IF i < lo THEN lo ELSE i
  IN IF m > hi THEN hi ELSE m

\* Python indexing of a column of n rows with index k (negative: from the end).
InBounds(n, k) == -n <= k /\ k < n
At(rows, k) == rows[(IF k < 0 THEN k + Len(rows) ELSE k) + 1]

\* pm_source: an IERS_B table is final throughout.
pm_source(t, i1) == IF t.cls = "IERS_B" THEN "FROM_IERS_B" ELSE "FROM_IERS_A"

\* _interpolate for one epoch e of a table t.
Lookup(t, e) ==
  LET rows == t.rows
      n == Len(rows)
      mjd == e \div 2
      utc2 == e % 2
      i == searchsorted(rows, mjd)
      i1 == clip(i, 1, n - 1)
      i0 == i1 - 1
  IN IF ~InBounds(n, i0) \/ ~InBounds(n, i1)
     THEN [err |-> TRUE, x |-> 0, y |-> 0, st |-> "IndexError"]
     ELSE LET r0 == At(rows, i0)
              r1 == At(rows, i1)
              val(c) ==
                IF i = 0 THEN rows[1][c]
                ELSE IF i = n THEN rows[n][c]
                ELSE r0[c] + ((2 * (mjd - r0.mjd) + utc2) * (r1[c] - r0[c]))
                             \div (2 * (r1.mjd - r0.mjd))
              st == IF i = 0 THEN "TIME_BEFORE_IERS_RANGE"
                    ELSE IF i = n THEN "TIME_BEYOND_IERS_RANGE"
                    ELSE pm_source(t, i1)
          IN [err |-> FALSE, x |-> val("pm_x"), y |-> val("pm_y"), st |-> st]

\* Shaped with the unwrapping forgotten.
ShapedAsArray(q, s) == [shape |-> "array", v |-> s]

\* An array given back in the shape of the query: a scalar query is wrapped
\* into an array of one and its results unwrapped again.
Shaped(q, s) == [shape |-> q.shape, v |-> s]

NoValue == [shape |-> "none", v |-> <<>>]

\* The three arrays pm_xy returns, from the per-epoch results r.
Results(q, r) ==
  IF \E i \in 1..Len(r) : r[i].err
  THEN [kind |-> "IndexError", pm_x |-> NoValue, pm_y |-> NoValue,
        status |-> NoValue]
  ELSE [kind |-> "ok",
        pm_x |-> Shaped(q, [i \in 1..Len(r) |-> r[i].x]),
        pm_y |-> Shaped(q, [i \in 1..Len(r) |-> r[i].y]),
        status |-> Shaped(q, [i \in 1..Len(r) |-> r[i].st])]

\* A lookup that gives zeros where the indexing fails.
pm_xy_default(t, q) ==
  Results(q, [i \in 1..Len(q.v) |-> [Lookup(t, q.v[i]) EXCEPT !.err = FALSE]])

\* iers_table.pm_xy(jd, return_status=True)
pm_xy(t, q) == Results(q, [i \in 1..Len(q.v) |-> Lookup(t, q.v[i])])

\* np.any(status != iers.FROM_IERS_B)
NotFinal(st) == \E i \in 1..Len(st.v) : st.v[i] # "FROM_IERS_B"

\* warnings.warn(wrnmsg) under Python's default filter: a warning is shown
\* the first time it is issued from a place and recorded in the registry;
\* the same warning from the same place is not shown again.
WarnShown(reg, msg) == IF msg \in reg THEN 0 ELSE 1
WarnRegistry(reg, msg) == reg \cup {msg}

(***************************************************************************)
(* get_iers_polar_motion(jd)                                               *)
(***************************************************************************)
get_iers_polar_motion(q) ==
  \E t \in {refresh_table_as_needed(IERS_Auto_open)} :
  \E r \in {pm_xy(t, q)} :
  \E warns \in {r.kind = "ok" /\ NotFinal(r.status)} :
     /\ iers_table' = t
     /\ jd' = q
     /\ status' = r.status
     /\ ret' = [kind |-> r.kind, pm_x |-> r.pm_x, pm_y |-> r.pm_y]
     /\ shown' = IF warns THEN WarnShown(registry, wrnmsg) ELSE 0
     /\ registry' = IF warns THEN WarnRegistry(registry, wrnmsg) ELSE registry
     /\ repeat' = (q = jd)
     /\ elapsed' = (called_at >= 0 /\ now > called_at)
     /\ called_at' = now
     /\ UNCHANGED <<bundled, remote, now, args, out>>

Call == \E q \in Queries : get_iers_polar_motion(q)

\* Time passes: more than auto_max_age days, in which the IERS server
\* publishes a newer file.
Elapse ==
  /\ now < MaxTicks * (auto_max_age + 1)
  /\ now' = now + auto_max_age + 1
  /\ remote' = remote + 1
  /\ UNCHANGED <<bundled, iers_table, registry, jd, ret, status, shown,
                 repeat, elapsed, called_at, args, out>>

(***************************************************************************)
(* polar_motion_correction(xp, yp, lat, lon)                               *)
(*                                                                         *)
(* Numbers.  xp and yp are given in hundredths of an arcsecond, lat and    *)
(* lon in whole degrees.  A floating-point value is kept as the four       *)
(* coefficients <<c0, c1, c2, c3>> of c0 + c1*eps + c2*eps^2 + c3*eps^3,   *)
(* where eps = 6.123233995736766e-17 is the double np.cos(np.radians(90)): *)
(* the doubles nearest to pi/2, pi, 3*pi/2 are not those numbers, so the   *)
(* cosine or sine that would vanish there is a small multiple of eps       *)
(* instead.  A value is the double 0.0 exactly when all four coefficients  *)
(* are 0.  Coefficients are fixed-point integers, rounded to nearest.      *)
(***************************************************************************)

\* a = 6378136 (m)
a == 6378136
\* omega = 7292115e-11 (rad/s), in units of 1e-11
omega == 7292115
\* the factor 1.164, in thousandths
delta == 1164

\* Scale of the sines and cosines.
Q == 10^4

\* x / b rounded to nearest, for an even b > 0.
RDiv(x, b) == IF x >= 0 THEN (x + b \div 2) \div b
              ELSE -((-x + b \div 2) \div b)

Zero == <<0, 0, 0, 0>>
Num(c) == <<c, 0, 0, 0>>
Tiny(c) == <<0, c, 0, 0>>

IsZero(p) == \A k \in 1..4 : p[k] = 0
PSub(p, q) == [k \in 1..4 |-> p[k] - q[k]]
PScale(p, c) == [k \in 1..4 |-> p[k] * c]
PDiv(p, b) == [k \in 1..4 |-> RDiv(p[k], b)]
PTerm(p, q, k, i) == IF i <= k THEN p[i] * q[k + 1 - i] ELSE 0
PMul(p, q) == [k \in 1..4 |->
                 PTerm(p, q, k, 1) + PTerm(p, q, k, 2)
                 + PTerm(p, q, k, 3) + PTerm(p, q, k, 4)]

\* Degrees d, a multiple of 45 with |d| < 360, brought into 0 .. 315.
Turn(d) == d % 360

\* np.sin(np.radians(d)) in units of 1/Q, for d a multiple of 45 degrees.
Sin(d) ==
  CASE Turn(d) = 0 -> Zero
    [] Turn(d) = 45 -> Num(7071)
    [] Turn(d) = 90 -> Num(Q)
    [] Turn(d) = 135 -> Num(7071)
    [] Turn(d) = 180 -> IF d > 0 THEN Tiny(2 * Q) ELSE Tiny(-2 * Q)
    [] Turn(d) = 225 -> Num(-7071)
    [] Turn(d) = 270 -> Num(-Q)
    [] Turn(d) = 315 -> Num(-7071)

\* np.cos(np.radians(d)) in units of 1/Q, for d a multiple of 45 degrees.
Cos(d) ==
  CASE Turn(d) = 0 -> Num(Q)
    [] Turn(d) = 45 -> Num(7071)
    [] Turn(d) = 90 -> IF d > 0 THEN Tiny(Q) ELSE Tiny(-3 * Q)
    [] Turn(d) = 135 -> Num(-7071)
    [] Turn(d) = 180 -> Num(-Q)
    [] Turn(d) = 225 -> Num(-7071)
    [] Turn(d) = 270 -> IF d > 0 THEN Tiny(-3 * Q) ELSE Tiny(Q)
    [] Turn(d) = 315 -> Num(7071)

\* xp / 3600: hundredths of an arcsecond to degrees, in units of 1e-10.
Div3600(x) == RDiv(x * 10^6, 36)

\* np.radians: degrees to radians, pi/180 taken as 355/(113*180); units kept.
Radians(d) == RDiv(d * 355, 113 * 180)

\* coords with sin(lat) taken twice.
Coords_sin_sin(xp, yp, lat, lon) ==
  LET t == PDiv(PScale(PMul(Sin(lat), Sin(lat)), 2), Q)
      inner == PDiv(PSub(PScale(Cos(lon), xp), PScale(Sin(lon), yp)), Q)
  IN PDiv(PMul(t, inner), Q)

\* coords with the yp term added instead of subtracted.
Coords_plus(xp, yp, lat, lon) ==
  LET t == PDiv(PScale(PMul(Sin(lat), Cos(lat)), 2), Q)
      inner == PDiv(PSub(PScale(Cos(lon), xp), PScale(Sin(lon), -yp)), Q)
  IN PDiv(PMul(t, inner), Q)

\* coords = 2 * sin(lat) * cos(lat) * (xp * cos(lon) - yp * sin(lon)),
\* xp and yp in radians (units of 1e-10); the result is in the same units.
Coords(xp, yp, lat, lon) ==
  LET t == PDiv(PScale(PMul(Sin(lat), Cos(lat)), 2), Q)
      inner == PDiv(PSub(PScale(Cos(lon), xp), PScale(Sin(lon), yp)), Q)
  IN PDiv(PMul(t, inner), Q)

\* -1.164 * omega**2 * a, in units of 1e-5 (omega and a taken to 4 digits).
Factor ==
  LET omega2 == RDiv(RDiv(omega, 1000) * RDiv(omega, 1000), 1000)
      scaled == RDiv(-delta * omega2, 1000)
  IN RDiv(scaled * RDiv(a, 1000), 10^5)

\* The function: the correction in units of 1e-12 m/s**2.  Every latitude
\* is computed with; none is refused.
polar_motion_correction(xp, yp, lat, lon) ==
  LET xr == Radians(Div3600(xp))
      yr == Radians(Div3600(yp))
  IN [kind |-> "ok", val |-> PDiv(PScale(Coords(xr, yr, lat, lon), Factor), 1000)]

MaxPole == 2
MaxLat == 3
MaxLon == 2

\* Pole coordinates to 0.05 arcsec * MaxPole, latitudes to 45 * MaxLat
\* degrees (beyond the poles included), longitudes to 90 * MaxLon degrees.
PoleVals == {5 * i : i \in -1..MaxPole}
LatVals == {45 * k : k \in -MaxLat..MaxLat}
LonVals == {90 * j : j \in -MaxLon..MaxLon}

\* A call of the function with the arguments it is given.
Correct ==
  \E xp \in PoleVals, yp \in PoleVals, lat \in LatVals, lon \in LonVals :
    /\ ~args.called
    /\ args' = [xp |-> xp, yp |-> yp, lat |-> lat, lon |-> lon, called |-> TRUE]
    /\ out' = polar_motion_correction(xp, yp, lat, lon)
    /\ UNCHANGED pmvars

NoArgs == [xp |-> 0, yp |-> 0, lat |-> 0, lon |-> 0, called |-> FALSE]
NoOut == [kind |-> "none", val |-> <<0, 0, 0, 0>>]

\* The caller has its result and may call again.
Return ==
  /\ args.called
  /\ args' = NoArgs
  /\ out' = NoOut
  /\ UNCHANGED pmvars

\* A fresh process: nothing opened, nothing called.
Fresh ==
  /\ remote = 0
  /\ now = 0
  /\ iers_table = NoTable
  /\ registry = {}
  /\ jd = [shape |-> "none", v |-> <<>>]
  /\ ret = [kind |-> "none", pm_x |-> NoValue, pm_y |-> NoValue]
  /\ status = NoValue
  /\ shown = 0
  /\ repeat = FALSE
  /\ elapsed = FALSE
  /\ called_at = -1
  /\ args = NoArgs
  /\ out = NoOut

Init == bundled \in BundledFiles /\ Fresh

Next == Call \/ Elapse

Spec == Init /\ [][Next]_vars

\* polar_motion_correction alone: it reads no table.
InitCorr == bundled = <<>> /\ Fresh

NextCorr == Correct \/ Return

SpecCorr == InitCorr /\ [][NextCorr]_vars

(***************************************************************************)
(* Properties.                                                             *)
(***************************************************************************)

Called == ret.kind # "none"
Abs(x) == IF x < 0 THEN -x ELSE x

\* Epoch e (half days) lies before the first or after the last row.
Before(rows, e) == e < 2 * rows[1].mjd
After(rows, e) == e > 2 * rows[Len(rows)].mjd

\* C1: a call that resolves at least one point that is not final surfaces
\* exactly one advisory, on the first call and on every later one, and still
\* returns xp and yp; a call whose points are all final surfaces none.
C1_AdvisoryEveryCall ==
  ret.kind = "ok" =>
    /\ Len(ret.pm_x.v) = Len(jd.v) /\ Len(ret.pm_y.v) = Len(jd.v)
    /\ shown = (IF NotFinal(status) THEN 1 ELSE 0)

\* C2: a latitude outside [-90, 90] degrees is refused with InvalidArgument
\* and no number is returned for it.
C2_LatitudeRejected ==
  (args.called /\ (args.lat > 90 \/ args.lat < -90)) =>
    out.kind = "InvalidArgument"

\* C3: against a table with rows, an epoch before the first or after the
\* last row never raises, gets the values of the nearest boundary row and a
\* status that is not final, and the call surfaces the advisory.
C3_ExtrapolationAdvised ==
  LET rows == iers_table.rows
      n == Len(rows)
  IN (Called /\ n > 0 /\ \E i \in 1..Len(jd.v) :
        Before(rows, jd.v[i]) \/ After(rows, jd.v[i])) =>
       /\ ret.kind = "ok"
       /\ \A i \in 1..Len(jd.v) :
            /\ Before(rows, jd.v[i]) =>
                 /\ ret.pm_x.v[i] = rows[1].pm_x
                 /\ ret.pm_y.v[i] = rows[1].pm_y
                 /\ status.v[i] # "FROM_IERS_B"
            /\ After(rows, jd.v[i]) =>
                 /\ ret.pm_x.v[i] = rows[n].pm_x
                 /\ ret.pm_y.v[i] = rows[n].pm_y
                 /\ status.v[i] # "FROM_IERS_B"
       /\ shown = 1

C6_ExactlyZeroAtPoles ==
  (args.called /\ (args.lat = 90 \/ args.lat = -90)) => IsZero(out.val)

\* C6, amended: at a latitude of +90 or -90 degrees the correction is zero up
\* to rounding: it has no part of order one, what is left is at most
\* 2 * eps * 1.164 * omega**2 * a * (|xp| + |yp|), and it is exactly zero when
\* xp = yp = 0.
C6_ZeroUpToRounding ==
  (args.called /\ (args.lat = 90 \/ args.lat = -90)) =>
    /\ out.val[1] = 0
    /\ Abs(out.val[2]) * 1000
         <= 2 * Abs(Factor) * (Abs(Radians(Div3600(args.xp)))
                               + Abs(Radians(Div3600(args.yp)))) + 1000
    /\ (args.xp = 0 /\ args.yp = 0) => IsZero(out.val)

C6_Witness ==
  /\ args.called /\ args.lat = 90 /\ args.lon = 0 /\ args.xp = 10
  /\ out.val[1] = 0 /\ out.val[2] # 0

\* The formula of the claim in closed form on the grid of the model:
\* 2*sin(lat)*cos(lat) = sin(2*lat) is 0, 1, 0, -1 at lat = 0, 45, 90, 135
\* (and so on), cos(lon) and sin(lon) are 1, 0, -1, 0 and 0, 1, 0, -1 at
\* lon = 0, 90, 180, 270; 1.164 * (7.292115e-5)^2 * 6378136 * pi / 648000 is
\* 1.91394e-7 m/s^2 for an arcsecond.  In units of 1e-12 m/s^2.
Sin90(k) == CASE k % 4 = 0 -> 0 [] k % 4 = 1 -> 1 [] k % 4 = 2 -> 0 [] k % 4 = 3 -> -1
Cos90(k) == Sin90(k + 1)
Reference(xp, yp, lat, lon) ==
  RDiv(-191394 * Sin90(lat \div 45)
         * (xp * Cos90(lon \div 90) - yp * Sin90(lon \div 90)), 100)

\* C7: for every input the function returns the value of the formula
\* -1.164 * omega^2 * a * 2*sin(lat)*cos(lat) * (xp*cos(lon) - yp*sin(lon)),
\* xp and yp divided by 3600 and turned into radians (to the precision of
\* the fixed-point arithmetic); it is zero for xp = yp = 0, and
\* -1.914e-8 m/s^2 for (0.1, 0.05, 45, 0).
C7_ReferenceFormula ==
  args.called =>
    /\ out.kind = "ok"
    /\ Abs(out.val[1] - Reference(args.xp, args.yp, args.lat, args.lon)) <= 2
    /\ (args.xp = 0 /\ args.yp = 0) => IsZero(out.val)
    /\ (args.xp = 10 /\ args.yp = 5 /\ args.lat = 45 /\ args.lon = 0) =>
         (-19145 < out.val[1] /\ out.val[1] < -19135)

C7_Witness ==
  /\ args.called /\ args.xp = 10 /\ args.yp = 5 /\ args.lat = 45 /\ args.lon = 0
  /\ out.kind = "ok" /\ out.val[1] = -19140

C9_TableNeverMutated ==
  [][/\ iers_table.cls # "None" => iers_table' = iers_table
     /\ bundled' = bundled]_vars

C9_Witness ==
  /\ elapsed /\ remote > 0 /\ now > auto_max_age
  /\ ret.kind = "ok" /\ NotFinal(status)
  /\ iers_table.cls = "IERS_B" /\ iers_table.rows = bundled /\ Len(bundled) > 0

====
